---- MODULE Spec2Model ----
(***************************************************************************)
(* Model of the content automation pipeline.  The persistence layer       *)
(* (models/database.py): the published_articles ledger, the                *)
(* newsletter_subscribers registry and the linkedin_queue, with the        *)
(* transaction scope of Database.get_connection and the MySQL semantics    *)
(* the statements rely on (unique keys under a case-insensitive collation, *)
(* ON DUPLICATE KEY UPDATE, affected-row counts of UPDATE).  The feed      *)
(* fetcher (services/rss_aggregator.py) and the daily run                  *)
(* (functions/daily_content/__init__.py) with the posts it creates at      *)
(* WordPress.                                                              *)
(***************************************************************************)
EXTENDS Integers, Sequences, FiniteSets, TLC

VARIABLES published_articles, newsletter_subscribers, linkedin_queue,
          wordpress_posts, runs, now, last

vars == <<published_articles, newsletter_subscribers, linkedin_queue,
          wordpress_posts, runs, now, last>>

\* ------------------------------------------------------------------------
\* Bounds of the model
\* ------------------------------------------------------------------------

\* the clock runs from 0 to MaxTime ticks
MaxTime == 2

\* number of clock ticks in one day
DayTicks == 1

\* get_recent_articles is called with days in 0..MaxDays
MaxDays == 2

\* a feed document holds at most MaxEntries entries
MaxEntries == 2

\* daily runs start while WordPress holds fewer than MaxPosts posts
MaxPosts == 2

\* a ranking answer names at most MaxFields comma-separated fields
MaxFields == 2

\* add_to_queue is called while the queue holds fewer than MaxQueue entries
MaxQueue == 2

\* send_newsletter is called with at most MaxRecipients subscribers
MaxRecipients == 3

\* ------------------------------------------------------------------------
\* Values
\* ------------------------------------------------------------------------

\* Python None / SQL NULL
None == "None"

\* the None that fetchone() returns when no row matches (ids start at 1)
NoRow == [id |-> 0]

\* urls passed as source_url; two of them differ only in letter case
SourceUrls == {"http://x/1", "http://X/1", "http://x/2"}

\* the remaining arguments of add_article
ArticleInputs ==
    { [title |-> "t1", wordpress_post_id |-> "101", wordpress_url |-> "w/101",
       source_name |-> "s1", tags |-> <<"a", "b">>],
      [title |-> "t2", wordpress_post_id |-> "102", wordpress_url |-> "w/102",
       source_name |-> "s2", tags |-> <<"c">>],
      [title |-> "t2", wordpress_post_id |-> None, wordpress_url |-> None,
       source_name |-> None, tags |-> <<>>],
      [title |-> None, wordpress_post_id |-> "101", wordpress_url |-> "w/101",
       source_name |-> "s1", tags |-> <<"a">>] }

\* emails passed to add_subscriber
Emails == {"a@x.com", "b@x.com"}

\* display names passed to add_subscriber
Names == {"n1", None}

\* tokens a caller passes explicitly
ExplicitTokens == {"k1"}

\* the values secrets.token_urlsafe(32) produces, in the order of first use
TokenPool == <<"g1", "g2", "g3", "g4", "g5", "g6">>

\* the entries a feed document can hold: link, title, and the publish hour
\* of the first date field present (has_date is false when there is none)
FeedEntries ==
    { [link |-> "http://x/1", title |-> "A",  has_date |-> TRUE,  published |-> -2],
      [link |-> "http://x/1", title |-> "A2", has_date |-> TRUE,  published |-> -1],
      [link |-> "http://x/2", title |-> "B",  has_date |-> TRUE,  published |-> -30],
      [link |-> "http://x/2", title |-> "B2", has_date |-> TRUE,  published |-> -2],
      [link |-> "http://X/1", title |-> "C",  has_date |-> FALSE, published |-> 0] }

\* the entry lists of a feed document
EntryLists == UNION {[1..n -> FeedEntries] : n \in 0..MaxEntries}

\* the state of the two configured feeds at the time of a fetch: the feed's
\* title, its entries, and whether fetching or parsing it raises
FeedContents ==
    { <<[title |-> "F1", entries |-> e1, fails |-> f1],
        [title |-> "F2", entries |-> e2, fails |-> f2]>> :
          e1 \in EntryLists, e2 \in EntryLists, f1 \in BOOLEAN, f2 \in BOOLEAN }

\* the values of max_age_hours and max_articles fetch_articles is called with
MaxAgeInputs == {2, 24, 48}
MaxArticlesInputs == {1, 2, 20}

\* the entry lists of the first and of the second feed that daily runs meet
DailyEntryLists1 ==
    { e \in EntryLists :
        \/ e = <<>>
        \/ Len(e) = 1 /\ e[1].title \in {"A", "C"}
        \/ Len(e) = 2 /\ e[1].title = "A2" /\ e[2].title = "B2" }

DailyEntryLists2 ==
    { e \in EntryLists : e = <<>> \/ (Len(e) = 1 /\ e[1].title = "B2") }

\* the steps of the per-article block at which a call can fail
PerArticleSteps == {"generate", "categorize", "publish", "record", "linkedin", "queue"}

\* what a daily run meets outside the database
DailyEnvs ==
    [ init_fails : BOOLEAN,
      feeds : { c \in FeedContents : /\ c[1].entries \in DailyEntryLists1
                                     /\ c[2].entries \in DailyEntryLists2 },
      fail : {[index |-> 0, step |-> "none"]}
             \cup {[index |-> 1, step |-> s] : s \in PerArticleSteps} ]

\* the ledgers a daily run can start from: the empty one, and one that
\* holds "http://x/1" (the state add_article reaches from the empty ledger)
DailyLedgers ==
    { <<>>,
      <<[id |-> 1, title |-> "t1", source_url |-> "http://x/1",
         wordpress_post_id |-> "101", wordpress_url |-> "w/101",
         published_at |-> 0, source_name |-> "s1", tags |-> "a,b"]>> }

\* the timer invocations of the daily run that can overlap
RunIds == {1, 2}

\* no post created yet / no blog post generated yet
NoPost == [id |-> None]

\* the local state of a daily run that has not been triggered: its position
\* in main, the feed content it meets, and the locals of main
IdleRun ==
    [pc |-> "idle", feeds |-> <<>>, articles |-> <<>>, j |-> 0,
     new_articles |-> <<>>, candidates |-> <<>>, k |-> 0,
     blog_post |-> NoPost, wp_post |-> NoPost, article_id |-> 0,
     attempted |-> <<>>, published |-> <<>>, processed_count |-> 0]

\* a completion of the external model: the call raises, or the message
\* content is the given text (None when the message has no content)
Completion(fails, content) == [fails |-> fails, content |-> content]

\* the message contents the model gives when asked for a category: the four
\* categories, one of them padded with white space, and texts that are none
\* of them; None is a message without content
CategoryAnswers ==
    { ".NET Development", "Performance & Optimization", "Architecture & Patterns",
      "Cloud & DevOps", " Cloud & DevOps\n", "cloud & devops", "Security",
      "Category: Cloud & DevOps", "", None }

\* titles and excerpts passed to suggest_category
TitleInputs == {"T1", "T2"}
ExcerptInputs == {"", "e1"}

\* the articles handed to rank_articles_for_newsletter: up to three distinct
\* articles
RankArticle(n) ==
    [title |-> <<"R1", "R2", "R3">>[n], url |-> <<"w/1", "w/2", "w/3">>[n],
     summary |-> "", published_date |-> 0, source |-> "s1", tags |-> <<>>]

RankInputs == {[k \in 1..n |-> RankArticle(k)] : n \in 0..3}

\* the values of top_n
TopNInputs == {1, 2, 3}

\* the comma-separated fields of a ranking answer: numbers in and out of
\* range, padded, and no number at all
RankFields == {"1", "2", "3", "0", "4", "-1", " 2 ", "x", ""}

\* a ranking message without content (str.split never gives an empty list)
NoFields == <<>>

\* the ranking answers, split at their commas, and the message without content
RankAnswers == UNION {[1..n -> RankFields] : n \in 1..MaxFields} \cup {NoFields}

\* the subscriber dicts passed to send_newsletter: rows as
\* get_active_subscribers returns them, and a dict that carries a token
SubscriberDicts ==
    { [id |-> 1, email |-> "a@x.com", name |-> "n1", subscribed_at |-> 0],
      [id |-> 2, email |-> "b@x.com", name |-> None, subscribed_at |-> 0],
      [email |-> "c@x.com", name |-> "n3", unsubscribe_token |-> "k3"] }

\* what happens to one recipient's send: the provider accepts the message,
\* the provider call returns False (an error it caught, or a status other
\* than 200/201/202), or an exception is raised inside the try block
SendOutcomes == {"sent", "refused", "raises"}

\* the ledgers a weekly run can meet: the empty one, and those that
\* add_article leaves after one and after two calls
WeeklyLedgers ==
    { <<>>,
      <<[id |-> 1, title |-> "t1", source_url |-> "http://x/1",
         wordpress_post_id |-> "101", wordpress_url |-> "w/101",
         published_at |-> 0, source_name |-> "s1", tags |-> "a,b"]>>,
      <<[id |-> 1, title |-> "t1", source_url |-> "http://x/1",
         wordpress_post_id |-> "101", wordpress_url |-> "w/101",
         published_at |-> 0, source_name |-> "s1", tags |-> "a,b"],
        [id |-> 2, title |-> "t2", source_url |-> "http://x/2",
         wordpress_post_id |-> None, wordpress_url |-> None,
         published_at |-> 0, source_name |-> None, tags |-> None]>> }

\* a row of the registry as add_subscriber, confirm_subscriber and
\* unsubscribe leave it
SubscriberRow(id, email, confirmation_token, unsubscribe_token, confirmed, active) ==
    [id |-> id, email |-> email, name |-> "n1", subscribed_at |-> 0,
     confirmed |-> confirmed, confirmation_token |-> confirmation_token,
     unsubscribe_token |-> unsubscribe_token, active |-> active]

\* the registries a weekly run can meet: empty, one subscriber before and
\* after confirming, two confirmed subscribers, and one of the two
\* unsubscribed
WeeklyRegistries ==
    { <<>>,
      <<SubscriberRow(1, "a@x.com", "g1", "g2", FALSE, TRUE)>>,
      <<SubscriberRow(1, "a@x.com", "g1", "g2", TRUE, TRUE)>>,
      <<SubscriberRow(1, "a@x.com", "g1", "g2", TRUE, TRUE),
        SubscriberRow(2, "b@x.com", "g3", "g4", TRUE, TRUE)>>,
      <<SubscriberRow(1, "a@x.com", "g1", "g2", TRUE, FALSE),
        SubscriberRow(2, "b@x.com", "g3", "g4", TRUE, TRUE)>> }

\* what a weekly run meets outside the database
WeeklyEnvs ==
    [ init_fails : BOOLEAN,
      rank : {Completion(TRUE, NoFields), Completion(FALSE, <<"2", "1">>),
              Completion(FALSE, <<"x">>)},
      intro : {Completion(TRUE, None), Completion(FALSE, " Hello \n"),
               Completion(FALSE, None)},
      practice : {Completion(TRUE, None), Completion(FALSE, " Hello \n")},
      outcomes : [1..2 -> SendOutcomes] ]

\* where a persistence failure is raised inside a write:
\* nowhere, or in the body of the with block after the statement has executed
FailurePoints == {"none", "body"}

\* the value of `last` when no call has been made
NoCall == [op |-> "none", args |-> <<>>, fail |-> "none", ret |-> None, raised |-> FALSE]

\* ------------------------------------------------------------------------
\* MySQL semantics used by the statements
\* ------------------------------------------------------------------------

\* string comparison under COLLATE utf8mb4_unicode_ci ignores letter case
Fold(s) ==
    CASE s = "http://X/1" -> "http://x/1"
      [] OTHER            -> s

\* the indexes of the rows of a table that satisfy P
Matching(rows, P(_)) == {i \in 1..Len(rows) : P(rows[i])}

RECURSIVE Join(_)
\* tags_str = ','.join(tags) if tags else None
JoinNonEmpty(tags) == IF Len(tags) = 1 THEN tags[1] ELSE tags[1] \o "," \o Join(Tail(tags))
Join(tags) == JoinNonEmpty(tags)
tags_str(tags) == IF Len(tags) = 0 THEN None ELSE Join(tags)

\* ------------------------------------------------------------------------
\* Database.get_connection: commit on success, rollback on any exception
\* ------------------------------------------------------------------------

\* `committed` is the table before the scope was entered, `body` the outcome
\* of the with block: the table as the statements left it, the value
\* returned, and whether an exception was raised
get_connection_keep(committed, body) ==
    [db |-> body.db, ret |-> IF body.raised THEN None ELSE body.ret, raised |-> body.raised]

get_connection(committed, body) ==
    IF body.raised
    THEN [db |-> committed, ret |-> None, raised |-> TRUE]
    ELSE [db |-> body.db, ret |-> body.ret, raised |-> FALSE]

\* ------------------------------------------------------------------------
\* ArticleModel
\* ------------------------------------------------------------------------

get_article_by_url_exact(rows, source_url) ==
    LET m == Matching(rows, LAMBDA r : r.source_url = source_url)
    IN  IF m = {} THEN NoRow ELSE rows[CHOOSE i \in m : TRUE]

\* SELECT * FROM published_articles WHERE source_url = %s; fetchone()
get_article_by_url(rows, source_url) ==
    LET m == Matching(rows, LAMBDA r : Fold(r.source_url) = Fold(source_url))
    IN  IF m = {} THEN NoRow ELSE rows[CHOOSE i \in m : TRUE]

is_article_published(rows, source_url) ==
    get_article_by_url(rows, source_url) # NoRow

\* INSERT INTO published_articles ... ON DUPLICATE KEY UPDATE
\*   wordpress_post_id = VALUES(wordpress_post_id), wordpress_url = VALUES(wordpress_url)
\* result: the table, cursor.lastrowid, and whether the statement raised
insert_article_no_unique(rows, a, t) ==
    IF a.title = None
    THEN [db |-> rows, lastrowid |-> 0, raised |-> TRUE]
    ELSE [db |-> Append(rows, [id |-> Len(rows) + 1, title |-> a.title,
                               source_url |-> a.source_url,
                               wordpress_post_id |-> a.wordpress_post_id,
                               wordpress_url |-> a.wordpress_url,
                               published_at |-> t,
                               source_name |-> a.source_name,
                               tags |-> tags_str(a.tags)]),
          lastrowid |-> Len(rows) + 1, raised |-> FALSE]

insert_article_update_all(rows, a, t) ==
    LET dup == Matching(rows, LAMBDA r : Fold(r.source_url) = Fold(a.source_url))
    IN  IF a.title = None \/ dup = {}
        THEN insert_article_no_unique(rows, a, t)
        ELSE LET i == CHOOSE j \in dup : TRUE
             IN  [db |-> [rows EXCEPT ![i] = [@ EXCEPT !.title = a.title,
                                                   !.wordpress_post_id = a.wordpress_post_id,
                                                   !.wordpress_url = a.wordpress_url,
                                                   !.source_name = a.source_name,
                                                   !.tags = tags_str(a.tags)]],
                  lastrowid |-> rows[i].id, raised |-> FALSE]

insert_article(rows, a, t) ==
    LET dup == Matching(rows, LAMBDA r : Fold(r.source_url) = Fold(a.source_url))
    IN  IF a.title = None
        THEN \* title VARCHAR(255) NOT NULL
             [db |-> rows, lastrowid |-> 0, raised |-> TRUE]
        ELSE IF dup = {}
        THEN [db |-> Append(rows, [id |-> Len(rows) + 1, title |-> a.title,
                                   source_url |-> a.source_url,
                                   wordpress_post_id |-> a.wordpress_post_id,
                                   wordpress_url |-> a.wordpress_url,
                                   published_at |-> t,
                                   source_name |-> a.source_name,
                                   tags |-> tags_str(a.tags)]),
              lastrowid |-> Len(rows) + 1, raised |-> FALSE]
        ELSE LET i == CHOOSE j \in dup : TRUE
                 changed == rows[i].wordpress_post_id # a.wordpress_post_id
                            \/ rows[i].wordpress_url # a.wordpress_url
             IN  [db |-> [rows EXCEPT ![i] = [@ EXCEPT !.wordpress_post_id = a.wordpress_post_id,
                                                   !.wordpress_url = a.wordpress_url]],
                  lastrowid |-> IF changed THEN rows[i].id ELSE 0,
                  raised |-> FALSE]

\* the body of the with block of add_article
add_article_body(rows, a, t, fail) ==
    LET x == insert_article(rows, a, t)
        \* get_article_by_url opens its own connection: it reads what is committed
        found == get_article_by_url(rows, a.source_url)
    IN  IF x.raised \/ fail = "body"
        THEN [db |-> x.db, ret |-> None, raised |-> TRUE]
        ELSE IF x.lastrowid # 0
        THEN [db |-> x.db, ret |-> x.lastrowid, raised |-> FALSE]
        ELSE IF found = NoRow
        THEN \* None['id'] raises TypeError
             [db |-> x.db, ret |-> None, raised |-> TRUE]
        ELSE [db |-> x.db, ret |-> found.id, raised |-> FALSE]

add_article(rows, a, t, fail) ==
    get_connection(rows, add_article_body(rows, a, t, fail))

\* the sequences that hold the rows of `rows` in an order with published_at
\* descending; rows with equal published_at come in any order
OrderByPublishedAtDesc(rows) ==
    LET n == Len(rows)
        perms == {p \in [1..n -> 1..n] : \A i, j \in 1..n : i # j => p[i] # p[j]}
    IN  { [i \in 1..n |-> rows[p[i]]] : p \in
            {q \in perms : \A i, j \in 1..n :
                i < j => rows[q[i]].published_at >= rows[q[j]].published_at} }

OrderByPublishedAtAsc(rows) ==
    LET n == Len(rows)
        perms == {p \in [1..n -> 1..n] : \A i, j \in 1..n : i # j => p[i] # p[j]}
    IN  { [i \in 1..n |-> rows[p[i]]] : p \in
            {q \in perms : \A i, j \in 1..n :
                i < j => rows[q[i]].published_at <= rows[q[j]].published_at} }

\* SELECT * FROM published_articles
\* WHERE published_at > DATE_SUB(NOW(), INTERVAL %s DAY) ORDER BY published_at DESC
\* the set of results fetchall() can return
get_recent_articles_asc(rows, t, days) ==
    OrderByPublishedAtAsc(SelectSeq(rows, LAMBDA r : r.published_at > t - days * DayTicks))

get_recent_articles(rows, t, days) ==
    OrderByPublishedAtDesc(SelectSeq(rows, LAMBDA r : r.published_at > t - days * DayTicks))

\* ------------------------------------------------------------------------
\* SubscriberModel
\* ------------------------------------------------------------------------

\* secrets.token_urlsafe(32): the k-th value of the pool that no row holds
\* (a token of 256 random bits equals no token in use)
token_urlsafe(rows, k) ==
    LET used == {rows[i].confirmation_token : i \in 1..Len(rows)}
                \cup {rows[i].unsubscribe_token : i \in 1..Len(rows)}
        free == SelectSeq(TokenPool, LAMBDA g : g \notin used)
    IN  free[k]

\* SELECT * FROM newsletter_subscribers WHERE email = %s; fetchone()
get_subscriber_by_email(rows, email) ==
    LET m == Matching(rows, LAMBDA r : Fold(r.email) = Fold(email))
    IN  IF m = {} THEN NoRow ELSE rows[CHOOSE i \in m : TRUE]

\* the row a new row (email, unsubscribe_token) collides with: the unique key
\* on email is checked before the unique key on unsubscribe_token; 0 if none
DuplicateKey(rows, email, unsubscribe_token) ==
    LET byEmail == Matching(rows, LAMBDA r : Fold(r.email) = Fold(email))
        byToken == Matching(rows, LAMBDA r : Fold(r.unsubscribe_token) = Fold(unsubscribe_token))
    IN  IF byEmail # {} THEN CHOOSE i \in byEmail : TRUE
        ELSE IF byToken # {} THEN CHOOSE i \in byToken : TRUE
        ELSE 0

insert_subscriber_new_tokens(rows, s, t) ==
    LET i == DuplicateKey(rows, s.email, s.unsubscribe_token)
    IN  IF i = 0
        THEN [db |-> Append(rows, [id |-> Len(rows) + 1, email |-> s.email,
                                   name |-> s.name, subscribed_at |-> t,
                                   confirmed |-> FALSE,
                                   confirmation_token |-> s.confirmation_token,
                                   unsubscribe_token |-> s.unsubscribe_token,
                                   active |-> TRUE]),
              lastrowid |-> Len(rows) + 1, raised |-> FALSE]
        ELSE [db |-> [rows EXCEPT ![i] = [@ EXCEPT !.name = s.name,
                                              !.confirmation_token = s.confirmation_token]],
              lastrowid |-> rows[i].id, raised |-> FALSE]

insert_subscriber_reactivate(rows, s, t) ==
    LET i == DuplicateKey(rows, s.email, s.unsubscribe_token)
    IN  IF i = 0
        THEN insert_subscriber_new_tokens(rows, s, t)
        ELSE [db |-> [rows EXCEPT ![i] = [@ EXCEPT !.name = s.name, !.active = TRUE]],
              lastrowid |-> rows[i].id, raised |-> FALSE]

\* INSERT INTO newsletter_subscribers (email, name, confirmation_token, unsubscribe_token)
\* ... ON DUPLICATE KEY UPDATE name = VALUES(name)
\* result: the table, cursor.lastrowid, and whether the statement raised
insert_subscriber(rows, s, t) ==
    LET i == DuplicateKey(rows, s.email, s.unsubscribe_token)
    IN  IF i = 0
        THEN [db |-> Append(rows, [id |-> Len(rows) + 1, email |-> s.email,
                                   name |-> s.name, subscribed_at |-> t,
                                   confirmed |-> FALSE,
                                   confirmation_token |-> s.confirmation_token,
                                   unsubscribe_token |-> s.unsubscribe_token,
                                   active |-> TRUE]),
              lastrowid |-> Len(rows) + 1, raised |-> FALSE]
        ELSE [db |-> [rows EXCEPT ![i] = [@ EXCEPT !.name = s.name]],
              \* a row set to the values it already has is not counted as updated
              lastrowid |-> IF rows[i].name # s.name THEN rows[i].id ELSE 0,
              raised |-> FALSE]

\* the body of the with block of add_subscriber
add_subscriber_body(rows, a, t, fail) ==
    LET s == [email |-> a.email, name |-> a.name,
              confirmation_token |-> IF a.confirmation_token = None
                                     THEN token_urlsafe(rows, 1)
                                     ELSE a.confirmation_token,
              unsubscribe_token |-> IF a.unsubscribe_token = None
                                    THEN token_urlsafe(rows, 2)
                                    ELSE a.unsubscribe_token]
        x == insert_subscriber(rows, s, t)
        \* get_subscriber_by_email opens its own connection: it reads what is committed
        found == get_subscriber_by_email(rows, a.email)
    IN  IF x.raised \/ fail = "body"
        THEN [db |-> x.db, ret |-> None, raised |-> TRUE]
        ELSE IF x.lastrowid # 0
        THEN [db |-> x.db, ret |-> x.lastrowid, raised |-> FALSE]
        ELSE IF found = NoRow
        THEN \* None['id'] raises TypeError
             [db |-> x.db, ret |-> None, raised |-> TRUE]
        ELSE [db |-> x.db, ret |-> found.id, raised |-> FALSE]

add_subscriber(rows, a, t, fail) ==
    get_connection(rows, add_subscriber_body(rows, a, t, fail))

\* UPDATE newsletter_subscribers SET confirmed = TRUE WHERE confirmation_token = %s
\* cursor.rowcount is the number of rows the statement changed
update_confirmed_all(rows, token) ==
    [db |-> [i \in 1..Len(rows) |-> [rows[i] EXCEPT !.confirmed = TRUE]],
     rowcount |-> Cardinality({i \in 1..Len(rows) : ~rows[i].confirmed})]

update_confirmed(rows, token) ==
    LET m == Matching(rows, LAMBDA r : Fold(r.confirmation_token) = Fold(token))
    IN  [db |-> [i \in 1..Len(rows) |->
                    IF i \in m THEN [rows[i] EXCEPT !.confirmed = TRUE] ELSE rows[i]],
         rowcount |-> Cardinality({i \in m : ~rows[i].confirmed})]

confirm_subscriber(rows, token, fail) ==
    LET x == update_confirmed(rows, token)
    IN  get_connection(rows,
            [db |-> x.db, ret |-> x.rowcount > 0, raised |-> fail = "body"])

\* UPDATE newsletter_subscribers SET active = FALSE WHERE unsubscribe_token = %s
update_active(rows, token) ==
    LET m == Matching(rows, LAMBDA r : Fold(r.unsubscribe_token) = Fold(token))
    IN  [db |-> [i \in 1..Len(rows) |->
                    IF i \in m THEN [rows[i] EXCEPT !.active = FALSE] ELSE rows[i]],
         rowcount |-> Cardinality({i \in m : rows[i].active})]

unsubscribe(rows, token, fail) ==
    LET x == update_active(rows, token)
    IN  get_connection(rows,
            [db |-> x.db, ret |-> x.rowcount > 0, raised |-> fail = "body"])

\* the columns get_active_subscribers selects
SubscriberColumns(r) ==
    [id |-> r.id, email |-> r.email, name |-> r.name, subscribed_at |-> r.subscribed_at]

get_active_subscribers_any_confirmed(rows) ==
    LET sel == SelectSeq(rows, LAMBDA r : r.active)
    IN  [k \in 1..Len(sel) |-> SubscriberColumns(sel[k])]

\* SELECT id, email, name, subscribed_at FROM newsletter_subscribers
\* WHERE active = TRUE AND confirmed = TRUE
get_active_subscribers(rows) ==
    LET sel == SelectSeq(rows, LAMBDA r : r.active /\ r.confirmed)
    IN  [k \in 1..Len(sel) |-> SubscriberColumns(sel[k])]

\* ------------------------------------------------------------------------
\* RSSAggregator
\* ------------------------------------------------------------------------

\* the clock in hours
Hours(t) == (t * 24) \div DayTicks

\* _parse_date: the first date field present, else datetime.now()
parse_date(entry, t) == IF entry.has_date THEN entry.published ELSE t

\* the Article built from an entry of a feed
Article(feed, entry, t) ==
    [title |-> entry.title, url |-> entry.link,
     published_date |-> parse_date(entry, t), source |-> feed.title]

fetch_feed_no_cutoff(feed, cutoff_date, t) ==
    [k \in 1..Len(feed.entries) |-> Article(feed, feed.entries[k], t)]

\* _fetch_feed: the articles of the entries not older than the cutoff
fetch_feed(feed, cutoff_date, t) ==
    SelectSeq([k \in 1..Len(feed.entries) |-> Article(feed, feed.entries[k], t)],
              LAMBDA a : ~(a.published_date < cutoff_date))

RECURSIVE collect(_, _, _)
collect_abort(feeds, cutoff_date, t) ==
    IF feeds = <<>> THEN [articles |-> <<>>, raised |-> FALSE]
    ELSE IF Head(feeds).fails THEN [articles |-> <<>>, raised |-> TRUE]
    ELSE LET rest == collect(Tail(feeds), cutoff_date, t)
         IN  [articles |-> fetch_feed(Head(feeds), cutoff_date, t) \o rest.articles,
              raised |-> rest.raised]

\* the loop over feed_urls: a feed that raises is logged and skipped
collect(feeds, cutoff_date, t) ==
    IF feeds = <<>> THEN [articles |-> <<>>, raised |-> FALSE]
    ELSE LET rest == collect(Tail(feeds), cutoff_date, t)
         IN  IF Head(feeds).fails THEN rest
             ELSE [articles |-> fetch_feed(Head(feeds), cutoff_date, t) \o rest.articles,
                   raised |-> rest.raised]

\* a inserted into the newest-first sequence s behind the articles that are
\* at least as new (list.sort is stable, also with reverse=True)
RECURSIVE InsertByDate(_, _)
InsertByDate(s, a) ==
    IF s = <<>> THEN <<a>>
    ELSE IF Head(s).published_date >= a.published_date
    THEN <<Head(s)>> \o InsertByDate(Tail(s), a)
    ELSE <<a>> \o s

\* all_articles.sort(key=lambda x: x.published_date, reverse=True)
RECURSIVE SortByDateDesc(_)
SortByDateDesc(s) ==
    IF s = <<>> THEN <<>>
    ELSE InsertByDate(SortByDateDesc(SubSeq(s, 1, Len(s) - 1)), s[Len(s)])

RECURSIVE DeduplicateKeepLast(_)
DeduplicateKeepLast(s) ==
    IF s = <<>> THEN <<>>
    ELSE IF \E k \in 2..Len(s) : s[k].url = Head(s).url
    THEN DeduplicateKeepLast(Tail(s))
    ELSE <<Head(s)>> \o DeduplicateKeepLast(Tail(s))

\* the seen_urls loop: the first article of every url
RECURSIVE Deduplicate(_)
Deduplicate(s) ==
    IF s = <<>> THEN <<>>
    ELSE LET init == Deduplicate(SubSeq(s, 1, Len(s) - 1))
             a == s[Len(s)]
         IN  IF \E k \in 1..Len(init) : init[k].url = a.url
             THEN init ELSE Append(init, a)

\* seq[:n] for n >= 0
Slice(seq, n) == SubSeq(seq, 1, IF n < Len(seq) THEN n ELSE Len(seq))

fetch_articles_truncate_first(feeds, t, max_age_hours, max_articles) ==
    LET c == collect(feeds, t - max_age_hours, t)
    IN  [ret |-> IF c.raised THEN <<>>
                 ELSE Deduplicate(Slice(SortByDateDesc(c.articles), max_articles)),
         raised |-> c.raised]

fetch_articles(feeds, t, max_age_hours, max_articles) ==
    LET cutoff_date == t - max_age_hours
        c == collect(feeds, cutoff_date, t)
    IN  [ret |-> IF c.raised THEN <<>>
                 ELSE Slice(Deduplicate(SortByDateDesc(c.articles)), max_articles),
         raised |-> c.raised]

\* ------------------------------------------------------------------------
\* LinkedInQueueModel
\* ------------------------------------------------------------------------

\* INSERT INTO linkedin_queue (article_id, post_content) VALUES (%s, %s)
insert_queue(queue, ledger, article_id, post_content, t) ==
    IF \/ post_content = None
       \/ \A i \in 1..Len(ledger) : ledger[i].id # article_id
    THEN \* post_content TEXT NOT NULL;
         \* FOREIGN KEY (article_id) REFERENCES published_articles(id)
         [db |-> queue, lastrowid |-> 0, raised |-> TRUE]
    ELSE [db |-> Append(queue, [id |-> Len(queue) + 1, article_id |-> article_id,
                                post_content |-> post_content, created_at |-> t,
                                posted |-> FALSE, posted_at |-> None]),
          lastrowid |-> Len(queue) + 1, raised |-> FALSE]

add_to_queue(queue, ledger, article_id, post_content, t, fail) ==
    LET x == insert_queue(queue, ledger, article_id, post_content, t)
    IN  get_connection(queue,
            IF x.raised \/ fail = "body"
            THEN [db |-> x.db, ret |-> None, raised |-> TRUE]
            ELSE [db |-> x.db, ret |-> x.lastrowid, raised |-> FALSE])

\* the sequences that hold the rows of `rows` in an order with created_at
\* descending; rows with equal created_at come in any order
OrderByCreatedAtDesc(rows) ==
    LET n == Len(rows)
        perms == {p \in [1..n -> 1..n] : \A i, j \in 1..n : i # j => p[i] # p[j]}
    IN  { [i \in 1..n |-> rows[p[i]]] : p \in
            {q \in perms : \A i, j \in 1..n :
                i < j => rows[q[i]].created_at >= rows[q[j]].created_at} }

\* lq.*, pa.title, pa.wordpress_url ... LEFT JOIN published_articles pa
\* ON lq.article_id = pa.id
JoinArticle(ledger, lq) ==
    LET m == {i \in 1..Len(ledger) : ledger[i].id = lq.article_id}
        pa == IF m = {} THEN [title |-> None, wordpress_url |-> None]
              ELSE ledger[CHOOSE i \in m : TRUE]
    IN  [id |-> lq.id, article_id |-> lq.article_id,
         post_content |-> lq.post_content, created_at |-> lq.created_at,
         posted |-> lq.posted, posted_at |-> lq.posted_at,
         title |-> pa.title, wordpress_url |-> pa.wordpress_url]

\* SELECT ... WHERE lq.posted = FALSE ORDER BY lq.created_at DESC LIMIT %s
\* the set of results fetchall() can return
get_pending_posts(queue, ledger, limit) ==
    { Slice([i \in 1..Len(o) |-> JoinArticle(ledger, o[i])], limit) :
        o \in OrderByCreatedAtDesc(SelectSeq(queue, LAMBDA r : ~r.posted)) }

mark_as_posted_toggle(queue, queue_id, t, fail) ==
    get_connection(queue,
        [db |-> [i \in 1..Len(queue) |->
                    IF queue[i].id = queue_id
                    THEN [queue[i] EXCEPT !.posted = ~@, !.posted_at = t]
                    ELSE queue[i]],
         ret |-> None, raised |-> fail = "body"])

\* UPDATE linkedin_queue SET posted = TRUE, posted_at = NOW() WHERE id = %s
mark_as_posted(queue, queue_id, t, fail) ==
    get_connection(queue,
        [db |-> [i \in 1..Len(queue) |->
                    IF queue[i].id = queue_id
                    THEN [queue[i] EXCEPT !.posted = TRUE, !.posted_at = t]
                    ELSE queue[i]],
         ret |-> None, raised |-> fail = "body"])

\* ------------------------------------------------------------------------
\* Config
\* ------------------------------------------------------------------------

\* the attributes of class Config that the daily run and the services read,
\* with the values they have when the environment sets none of them; the two
\* feeds of the model stand for the configured feed list
Config ==
    [ OPENAI_API_KEY          |-> None,
      AZURE_OPENAI_API_KEY    |-> None,
      WORDPRESS_URL           |-> "https://betania.io",
      ENVIRONMENT             |-> "development",
      MAX_NEWSLETTER_ARTICLES |-> 3,
      BLOG_CATEGORIES         |-> <<".NET Development", "Performance & Optimization",
                                    "Architecture & Patterns", "Cloud & DevOps">>,
      RSS_FEEDS               |-> <<"F1", "F2">> ]

\* Config.<name> raises AttributeError when the class has no such attribute
hasattr(cfg, name) == name \in DOMAIN cfg

\* ------------------------------------------------------------------------
\* Services the daily and the weekly run call
\* ------------------------------------------------------------------------

\* AIContentGenerator.generate_blog_post: the parsed response carries the
\* source url; a failure of the completion call is logged and raised again
generate_blog_post(article, fails) ==
    IF fails
    THEN [ret |-> None, raised |-> TRUE]
    ELSE [ret |-> [title |-> article.title, excerpt |-> "excerpt",
                   content |-> article.url, tags |-> <<"dotnet">>,
                   source_url |-> article.url],
          raised |-> FALSE]

\* str.strip() on the texts of the model
Strip(s) ==
    CASE s = " Cloud & DevOps\n" -> "Cloud & DevOps"
      [] s = " 2 "               -> "2"
      [] s = " Hello \n"         -> "Hello"
      [] OTHER                   -> s

\* the elements of a sequence
Range(seq) == {seq[i] : i \in 1..Len(seq)}

suggest_category_unvalidated(cfg, title, content_excerpt, response) ==
    IF response.fails \/ response.content = None
    THEN ".NET Development"
    ELSE Strip(response.content)

\* AIContentGenerator.suggest_category: the answer of the model is returned
\* when it is one of Config.BLOG_CATEGORIES; any other answer, and any
\* exception of the call (None.strip() included), gives the default
suggest_category(cfg, title, content_excerpt, response) ==
    IF response.fails \/ response.content = None
    THEN ".NET Development"
    ELSE LET category == Strip(response.content)
         IN  IF category \in Range(cfg.BLOG_CATEGORIES)
             THEN category
             ELSE ".NET Development"

\* int(num.strip()) for the comma-separated fields of a ranking answer;
\* a field outside the domain raises ValueError
IntOf ==
    ("0" :> 0) @@ ("1" :> 1) @@ ("2" :> 2) @@ ("3" :> 3) @@ ("4" :> 4) @@ ("-1" :> -1)

\* the list comprehension over selected_indices (0-indexed), which keeps the
\* indices inside the list, in the order and as often as the answer names them
RECURSIVE select(_, _)
select(articles, selected_indices) ==
    IF selected_indices = <<>> THEN <<>>
    ELSE LET i == Head(selected_indices)
             rest == select(articles, Tail(selected_indices))
         IN  IF 0 <= i /\ i < Len(articles)
             THEN <<articles[i + 1]>> \o rest
             ELSE rest

\* AIContentGenerator.rank_articles_for_newsletter: response.content is the
\* answer split at its commas.  A failed call, an answer without content and
\* a field that is no integer all end in the fallback articles[:top_n]
rank_articles_for_newsletter(articles, top_n, response) ==
    IF \/ response.fails
       \/ response.content = NoFields
       \/ \E k \in 1..Len(response.content) :
             Strip(response.content[k]) \notin DOMAIN IntOf
    THEN Slice(articles, top_n)
    ELSE LET selected_indices ==
                 [k \in 1..Len(response.content) |->
                     IntOf[Strip(response.content[k])] - 1]
         IN  Slice(select(articles, selected_indices), top_n)

\* the strings the two newsletter generators return when the call fails
DefaultIntro == "Welcome to this week's edition of the Betania Tech Newsletter! Here are the top 5 stories you shouldn't miss."

DefaultPracticeTask == "Weekly Practice: Take a small piece of code you wrote recently and refactor it using a modern .NET feature (such as pattern matching, records, or LINQ). Focus on making the code easier to read and reason about, and write down what changed and why."

generate_newsletter_intro_raises(articles, response) ==
    IF response.fails \/ response.content = None
    THEN [ret |-> None, raised |-> TRUE]
    ELSE [ret |-> Strip(response.content), raised |-> FALSE]

\* AIContentGenerator.generate_newsletter_intro
generate_newsletter_intro(articles, response) ==
    IF response.fails \/ response.content = None
    THEN [ret |-> DefaultIntro, raised |-> FALSE]
    ELSE [ret |-> Strip(response.content), raised |-> FALSE]

\* AIContentGenerator.generate_practice_task
generate_practice_task(articles, response) ==
    IF response.fails \/ response.content = None
    THEN [ret |-> DefaultPracticeTask, raised |-> FALSE]
    ELSE [ret |-> Strip(response.content), raised |-> FALSE]

\* AIContentGenerator.generate_linkedin_post
generate_linkedin_post(article, fails) ==
    IF fails
    THEN [ret |-> None, raised |-> TRUE]
    ELSE [ret |-> article.url, raised |-> FALSE]

\* WordPressClient.create_post: POST /posts; the response holds the id and
\* the link of the post created.  A failed request creates no post and is
\* raised again
create_post(posts, title, content, status, excerpt, tags, categories, fails) ==
    IF fails
    THEN [posts |-> posts, ret |-> None, raised |-> TRUE]
    ELSE LET id == ToString(Len(posts) + 1)
         IN  [posts |-> Append(posts, [id |-> id, link |-> "w/" \o id,
                                       title |-> title, content |-> content,
                                       status |-> status, excerpt |-> excerpt,
                                       tags |-> tags, categories |-> categories]),
              ret |-> [id |-> id, link |-> "w/" \o id],
              raised |-> FALSE]

\* ------------------------------------------------------------------------
\* EmailService
\* ------------------------------------------------------------------------

\* subscriber.get(key, default)
dict_get(d, key, default) == IF key \in DOMAIN d THEN d[key] ELSE default

\* the message handed to the provider for one subscriber
personalize(cfg, subscriber, subject, html_content) ==
    [to_email |-> subscriber.email,
     to_name |-> dict_get(subscriber, "name", ""),
     subject |-> subject,
     html_content |-> html_content,
     unsubscribe_url |-> cfg.WORDPRESS_URL \o "/unsubscribe?token="
                         \o dict_get(subscriber, "unsubscribe_token", "")]

RECURSIVE send_loop_abort(_, _, _, _, _, _)
send_loop_abort(cfg, subscribers, outcomes, subject, html_content, acc) ==
    LET k == Len(acc.attempts) + 1
    IN  IF k > Len(subscribers) THEN acc
        ELSE LET msg == personalize(cfg, subscribers[k], subject, html_content)
                 tried == [acc EXCEPT !.attempts = Append(@, msg)]
             IN  IF outcomes[k] = "sent"
                 THEN send_loop_abort(cfg, subscribers, outcomes, subject, html_content,
                                [tried EXCEPT !.sent_count = @ + 1])
                 ELSE [tried EXCEPT !.failed = Append(@, subscribers[k].email)]

RECURSIVE send_loop(_, _, _, _, _, _)
\* the for loop of send_newsletter: acc holds the messages handed to the
\* provider so far, sent_count and failed
send_loop(cfg, subscribers, outcomes, subject, html_content, acc) ==
    LET k == Len(acc.attempts) + 1
    IN  IF k > Len(subscribers) THEN acc
        ELSE LET msg == personalize(cfg, subscribers[k], subject, html_content)
                 tried == [acc EXCEPT !.attempts = Append(@, msg)]
             IN  send_loop(cfg, subscribers, outcomes, subject, html_content,
                           IF outcomes[k] = "sent"
                           THEN [tried EXCEPT !.sent_count = @ + 1]
                           ELSE [tried EXCEPT !.failed =
                                                 Append(@, subscribers[k].email)])

\* EmailService.send_newsletter; html_content stands for the rendered
\* template of intro, articles and practice_task
send_newsletter(cfg, subscribers, subject, intro, articles, practice_task, outcomes) ==
    LET html_content == [intro |-> intro, articles |-> articles,
                         practice_task |-> practice_task]
        r == send_loop(cfg, subscribers, outcomes, subject, html_content,
                       [attempts |-> <<>>, sent_count |-> 0, failed |-> <<>>])
    IN  [ret |-> r.sent_count, attempts |-> r.attempts, failed |-> r.failed,
         raised |-> FALSE]

\* ------------------------------------------------------------------------
\* Daily run (functions/daily_content)
\* ------------------------------------------------------------------------

\* the body of the inner try for one article.  st holds the ledger, the
\* queue, the posts at WordPress, the urls attempted so far and
\* processed_count; step is the step that fails for this article, or "none"
process_article(cfg, article, st, t, step) ==
    LET s0 == [st EXCEPT !.attempted = Append(@, article.url)]
        blog_post == generate_blog_post(article, step = "generate")
    IN  IF blog_post.raised THEN s0
        ELSE
        LET category == suggest_category(cfg, blog_post.ret.title,
                                         blog_post.ret.excerpt,
                                         Completion(step = "categorize",
                                                    "Performance & Optimization"))
            wp_post == create_post(s0.posts, blog_post.ret.title, blog_post.ret.content,
                                   "draft", blog_post.ret.excerpt, blog_post.ret.tags,
                                   <<category>>, step = "publish")
        IN  IF wp_post.raised THEN s0
            ELSE
            LET s1 == [s0 EXCEPT !.posts = wp_post.posts]
                rec == add_article(s1.ledger,
                                   [title |-> blog_post.ret.title,
                                    source_url |-> article.url,
                                    wordpress_post_id |-> wp_post.ret.id,
                                    wordpress_url |-> wp_post.ret.link,
                                    source_name |-> article.source,
                                    tags |-> blog_post.ret.tags],
                                   t, IF step = "record" THEN "body" ELSE "none")
            IN  IF rec.raised THEN s1
                ELSE
                LET s2 == [s1 EXCEPT !.ledger = rec.db]
                    linkedin_post == generate_linkedin_post(article, step = "linkedin")
                IN  IF linkedin_post.raised THEN s2
                    ELSE
                    LET q == add_to_queue(s2.queue, s2.ledger, rec.ret,
                                          linkedin_post.ret, t,
                                          IF step = "queue" THEN "body" ELSE "none")
                    IN  IF q.raised THEN s2
                        ELSE [s2 EXCEPT !.queue = q.db,
                                        !.processed_count = @ + 1]

RECURSIVE process_articles(_, _, _, _, _, _)
\* the for loop over the candidates: candidate number fail.index fails at
\* step fail.step, every exception is caught and the loop continues
process_articles(cfg, candidates, k, st, t, fail) ==
    IF k > Len(candidates) THEN st
    ELSE process_articles(cfg, candidates, k + 1,
             process_article(cfg, candidates[k], st, t,
                             IF fail.index = k THEN fail.step ELSE "none"),
             t, fail)

\* main: env is what the run meets outside the database: whether the
\* construction of a service raises, the state of the feeds, and the step
\* that fails in the per-article block.  The result holds the three stores
\* after the run, what the run fetched and attempted, and whether main raised
daily_main(cfg, env, ledger, queue, posts, t) ==
    LET st == [ledger |-> ledger, queue |-> queue, posts |-> posts,
               attempted |-> <<>>, processed_count |-> 0]
        fetched == fetch_articles(env.feeds, Hours(t), 24, 20)
        articles == fetched.ret
        new_articles == SelectSeq(articles,
                            LAMBDA a : ~is_article_published(ledger, a.url))
    IN  IF env.init_fails \/ fetched.raised
        THEN \* the outer except logs the fatal error and raises it again
             st @@ [articles |-> <<>>, new_articles |-> <<>>, raised |-> TRUE]
        ELSE IF articles = <<>>
        THEN \* "No new articles found": return
             st @@ [articles |-> articles, new_articles |-> <<>>, raised |-> FALSE]
        ELSE IF ~hasattr(cfg, "MAX_ARTICLES_PER_DAY")
        THEN \* AttributeError in the loop header, outside the inner try
             st @@ [articles |-> articles, new_articles |-> new_articles,
                    raised |-> TRUE]
        ELSE process_articles(cfg, Slice(new_articles, cfg.MAX_ARTICLES_PER_DAY),
                              1, st, t, env.fail)
             @@ [articles |-> articles, new_articles |-> new_articles,
                 raised |-> FALSE]

\* one step of a daily run whose calls all succeed, taken while another run
\* may be between two of its own steps.  Every call that reads or writes
\* the database or WordPress is a step of its own: the filter reads the
\* ledger once per article, and create_post, add_article and add_to_queue
\* each act at once.  The result holds the run's new local state and the
\* three stores
next_candidate(run) ==
    [run EXCEPT !.k = @ + 1,
                !.pc = IF run.k + 1 > Len(run.candidates) THEN "done" ELSE "generate"]

daily_step(cfg, run, ledger, queue, posts, t) ==
    LET same == [run |-> run, ledger |-> ledger, queue |-> queue, posts |-> posts]
    IN  CASE run.pc = "fetch" ->
               LET fetched == fetch_articles(run.feeds, Hours(t), 24, 20)
               IN  [same EXCEPT !.run =
                      IF fetched.raised THEN [run EXCEPT !.pc = "raised"]
                      ELSE IF fetched.ret = <<>> THEN [run EXCEPT !.pc = "done"]
                      ELSE [run EXCEPT !.pc = "filter", !.articles = fetched.ret, !.j = 1]]
          [] run.pc = "filter" ->
               LET a == run.articles[run.j]
               IN  [same EXCEPT !.run =
                      [run EXCEPT !.new_articles =
                                     IF is_article_published(ledger, a.url)
                                     THEN @ ELSE Append(@, a),
                                  !.j = @ + 1,
                                  !.pc = IF run.j = Len(run.articles)
                                         THEN "cap" ELSE "filter"]]
          [] run.pc = "cap" ->
               IF ~hasattr(cfg, "MAX_ARTICLES_PER_DAY")
               THEN [same EXCEPT !.run = [run EXCEPT !.pc = "raised"]]
               ELSE LET c == Slice(run.new_articles, cfg.MAX_ARTICLES_PER_DAY)
                    IN  [same EXCEPT !.run =
                           [run EXCEPT !.candidates = c, !.k = 1,
                                       !.pc = IF c = <<>> THEN "done" ELSE "generate"]]
          [] run.pc = "generate" ->
               LET article == run.candidates[run.k]
                   blog_post == generate_blog_post(article, FALSE)
               IN  [same EXCEPT !.run =
                      [run EXCEPT !.blog_post = blog_post.ret,
                                  !.attempted = Append(@, article.url),
                                  !.pc = "publish"]]
          [] run.pc = "publish" ->
               LET category == suggest_category(cfg, run.blog_post.title,
                                                run.blog_post.excerpt,
                                                Completion(FALSE,
                                                    "Performance & Optimization"))
                   wp_post == create_post(posts, run.blog_post.title,
                                          run.blog_post.content, "draft",
                                          run.blog_post.excerpt, run.blog_post.tags,
                                          <<category>>, FALSE)
               IN  [same EXCEPT !.posts = wp_post.posts,
                                !.run = [run EXCEPT !.wp_post = wp_post.ret,
                                                    !.published =
                                                       Append(@, run.candidates[run.k].url),
                                                    !.pc = "record"]]
          [] run.pc = "record" ->
               LET article == run.candidates[run.k]
                   rec == add_article(ledger,
                                      [title |-> run.blog_post.title,
                                       source_url |-> article.url,
                                       wordpress_post_id |-> run.wp_post.id,
                                       wordpress_url |-> run.wp_post.link,
                                       source_name |-> article.source,
                                       tags |-> run.blog_post.tags],
                                      t, "none")
               IN  IF rec.raised
                   THEN [same EXCEPT !.run = next_candidate(run)]
                   ELSE [same EXCEPT !.ledger = rec.db,
                                     !.run = [run EXCEPT !.article_id = rec.ret,
                                                         !.pc = "queue"]]
          [] run.pc = "queue" ->
               LET linkedin_post == generate_linkedin_post(run.candidates[run.k], FALSE)
                   q == add_to_queue(queue, ledger, run.article_id,
                                     linkedin_post.ret, t, "none")
               IN  IF q.raised
                   THEN [same EXCEPT !.run = next_candidate(run)]
                   ELSE [same EXCEPT !.queue = q.db,
                                     !.run = next_candidate(
                                                [run EXCEPT !.processed_count = @ + 1])]
          [] OTHER -> same

\* ------------------------------------------------------------------------
\* Weekly run (functions/weekly_newsletter)
\* ------------------------------------------------------------------------

\* tags.split(',') on the tag strings the ledger holds
Split(str) ==
    CASE str = "a,b" -> <<"a", "b">>
      [] OTHER      -> <<str>>

\* the Article built from a ledger row for the ranking
ArticleOfRow(db_article) ==
    [title |-> db_article.title,
     url |-> IF db_article.wordpress_url # None
             THEN db_article.wordpress_url ELSE db_article.source_url,
     summary |-> dict_get(db_article, "excerpt", ""),
     published_date |-> db_article.published_at,
     source |-> dict_get(db_article, "source_name", "Betania.io"),
     tags |-> IF db_article.tags # None THEN Split(db_article.tags) ELSE <<>>]

\* the dict of one selected article handed to send_newsletter
NewsletterArticle(article) ==
    [title |-> article.title, summary |-> article.summary,
     url |-> article.url, source |-> article.source]

weekly_body_always_sends(cfg, env, recent_articles, registry, t) ==
    LET none == [raised |-> FALSE, send_called |-> FALSE, attempts |-> <<>>,
                 sent_count |-> 0, top_articles |-> <<>>, intro |-> None,
                 practice_task |-> None, subscribers |-> <<>>]
        top_articles == rank_articles_for_newsletter(
                            [k \in 1..Len(recent_articles) |->
                                ArticleOfRow(recent_articles[k])],
                            cfg.MAX_NEWSLETTER_ARTICLES, env.rank)
        intro == generate_newsletter_intro(top_articles, env.intro)
        practice_task == generate_practice_task(top_articles, env.practice)
        subscribers == get_active_subscribers(registry)
        sent == send_newsletter(cfg, subscribers,
                                [top |-> Len(top_articles), date |-> t], intro.ret,
                                [k \in 1..Len(top_articles) |->
                                    NewsletterArticle(top_articles[k])],
                                practice_task.ret, env.outcomes)
    IN  IF env.init_fails \/ intro.raised \/ practice_task.raised
        THEN [none EXCEPT !.raised = TRUE]
        ELSE [raised |-> sent.raised, send_called |-> TRUE,
              attempts |-> sent.attempts, sent_count |-> sent.ret,
              top_articles |-> top_articles, intro |-> intro.ret,
              practice_task |-> practice_task.ret, subscribers |-> subscribers]

\* main, from the result of get_recent_articles(days=7) on.  env is what the
\* run meets outside the database: whether the construction of a service
\* raises, the completions of the three generator calls, and the outcome of
\* the send for each recipient.  The result says whether main raised, whether
\* send_newsletter was called and with what, and what it handed to the
\* provider
weekly_body(cfg, env, recent_articles, registry, t) ==
    LET none == [raised |-> FALSE, send_called |-> FALSE, attempts |-> <<>>,
                 sent_count |-> 0, top_articles |-> <<>>, intro |-> None,
                 practice_task |-> None, subscribers |-> <<>>]
        articles_for_ranking == [k \in 1..Len(recent_articles) |->
                                    ArticleOfRow(recent_articles[k])]
        top_articles == rank_articles_for_newsletter(articles_for_ranking,
                            cfg.MAX_NEWSLETTER_ARTICLES, env.rank)
        intro == generate_newsletter_intro(top_articles, env.intro)
        practice_task == generate_practice_task(top_articles, env.practice)
        subscribers == get_active_subscribers(registry)
        newsletter_articles == [k \in 1..Len(top_articles) |->
                                   NewsletterArticle(top_articles[k])]
        subject == [top |-> Len(top_articles), date |-> t]
        sent == send_newsletter(cfg, subscribers, subject, intro.ret,
                                newsletter_articles, practice_task.ret, env.outcomes)
    IN  IF env.init_fails
        THEN \* the outer except logs the fatal error and raises it again
             [none EXCEPT !.raised = TRUE]
        ELSE IF recent_articles = <<>>
        THEN \* "No articles published in the past week": return
             none
        ELSE IF intro.raised \/ practice_task.raised
        THEN [none EXCEPT !.raised = TRUE, !.top_articles = top_articles]
        ELSE IF subscribers = <<>>
        THEN \* "No active subscribers found": return
             [none EXCEPT !.top_articles = top_articles, !.intro = intro.ret,
                          !.practice_task = practice_task.ret]
        ELSE [raised |-> sent.raised, send_called |-> TRUE,
              attempts |-> sent.attempts, sent_count |-> sent.ret,
              top_articles |-> top_articles, intro |-> intro.ret,
              practice_task |-> practice_task.ret, subscribers |-> subscribers]

\* main: the outcomes of a weekly run, one for each order in which
\* get_recent_articles can return the rows
weekly_main(cfg, env, ledger, registry, t) ==
    { weekly_body(cfg, env, recent_articles, registry, t) :
        recent_articles \in get_recent_articles(ledger, t, 7) }

\* ------------------------------------------------------------------------
\* Actions
\* ------------------------------------------------------------------------

Init ==
    /\ published_articles = <<>>
    /\ newsletter_subscribers = <<>>
    /\ linkedin_queue = <<>>
    /\ wordpress_posts = <<>>
    /\ runs = [r \in RunIds |-> IdleRun]
    /\ now = 0
    /\ last = NoCall

\* time passes between two calls
Tick ==
    /\ now < MaxTime
    /\ now' = now + 1
    /\ last' = [NoCall EXCEPT !.op = "tick"]
    /\ UNCHANGED <<published_articles, newsletter_subscribers, linkedin_queue,
                 wordpress_posts, runs>>

AddArticle ==
    \E a \in ArticleInputs, u \in SourceUrls, f \in FailurePoints :
        LET args == [title |-> a.title, source_url |-> u,
                     wordpress_post_id |-> a.wordpress_post_id,
                     wordpress_url |-> a.wordpress_url,
                     source_name |-> a.source_name, tags |-> a.tags]
            r == add_article(published_articles, args, now, f)
        IN  /\ published_articles' = r.db
            /\ last' = [op |-> "add_article", args |-> args, fail |-> f,
                        ret |-> r.ret, raised |-> r.raised]
            /\ UNCHANGED <<newsletter_subscribers, linkedin_queue, wordpress_posts, runs, now>>

IsArticlePublished ==
    \E u \in SourceUrls :
        /\ last' = [op |-> "is_article_published", args |-> [source_url |-> u],
                    fail |-> "none",
                    ret |-> is_article_published(published_articles, u),
                    raised |-> FALSE]
        /\ UNCHANGED <<published_articles, newsletter_subscribers, linkedin_queue,
                         wordpress_posts, runs, now>>

GetRecentArticles ==
    \E days \in 0..MaxDays :
        \E res \in get_recent_articles(published_articles, now, days) :
            /\ last' = [op |-> "get_recent_articles", args |-> [days |-> days],
                        fail |-> "none", ret |-> res, raised |-> FALSE]
            /\ UNCHANGED <<published_articles, newsletter_subscribers, linkedin_queue,
                         wordpress_posts, runs, now>>

LedgerNext == Tick \/ AddArticle \/ IsArticlePublished \/ GetRecentArticles

LedgerSpec == Init /\ [][LedgerNext]_vars

\* the tokens a caller of confirm_subscriber or unsubscribe can present:
\* those of the rows, and tokens that belong to nobody
PresentedTokens ==
    ExplicitTokens \cup {"unknown"}
    \cup {newsletter_subscribers[i].confirmation_token : i \in 1..Len(newsletter_subscribers)}
    \cup {newsletter_subscribers[i].unsubscribe_token : i \in 1..Len(newsletter_subscribers)}

AddSubscriber ==
    \E e \in Emails, n \in Names, c \in ExplicitTokens \cup {None},
       u \in ExplicitTokens \cup {None}, f \in FailurePoints :
        LET args == [email |-> e, name |-> n, confirmation_token |-> c,
                     unsubscribe_token |-> u]
            r == add_subscriber(newsletter_subscribers, args, now, f)
        IN  /\ newsletter_subscribers' = r.db
            /\ last' = [op |-> "add_subscriber", args |-> args, fail |-> f,
                        ret |-> r.ret, raised |-> r.raised]
            /\ UNCHANGED <<published_articles, linkedin_queue, wordpress_posts, runs, now>>

ConfirmSubscriber ==
    \E k \in PresentedTokens, f \in FailurePoints :
        LET r == confirm_subscriber(newsletter_subscribers, k, f)
        IN  /\ newsletter_subscribers' = r.db
            /\ last' = [op |-> "confirm_subscriber", args |-> [token |-> k],
                        fail |-> f, ret |-> r.ret, raised |-> r.raised]
            /\ UNCHANGED <<published_articles, linkedin_queue, wordpress_posts, runs, now>>

Unsubscribe ==
    \E k \in PresentedTokens, f \in FailurePoints :
        LET r == unsubscribe(newsletter_subscribers, k, f)
        IN  /\ newsletter_subscribers' = r.db
            /\ last' = [op |-> "unsubscribe", args |-> [token |-> k],
                        fail |-> f, ret |-> r.ret, raised |-> r.raised]
            /\ UNCHANGED <<published_articles, linkedin_queue, wordpress_posts, runs, now>>

GetActiveSubscribers ==
    /\ last' = [op |-> "get_active_subscribers", args |-> <<>>, fail |-> "none",
                ret |-> get_active_subscribers(newsletter_subscribers),
                raised |-> FALSE]
    /\ UNCHANGED <<published_articles, newsletter_subscribers, linkedin_queue,
                         wordpress_posts, runs, now>>

RegistryNext == AddSubscriber \/ ConfirmSubscriber \/ Unsubscribe
                \/ GetActiveSubscribers

RegistrySpec == Init /\ [][RegistryNext]_vars

\* one call of fetch_articles on some state of the feeds
FetchArticles ==
    /\ last.op = "none"
    /\ \E feeds \in FeedContents, h \in MaxAgeInputs, n \in MaxArticlesInputs :
          LET r == fetch_articles(feeds, Hours(now), h, n)
          IN  last' = [op |-> "fetch_articles",
                       args |-> [feeds |-> feeds, t |-> Hours(now),
                                 max_age_hours |-> h, max_articles |-> n],
                       fail |-> "none", ret |-> r.ret, raised |-> r.raised]
    /\ UNCHANGED <<published_articles, newsletter_subscribers, linkedin_queue,
                         wordpress_posts, runs, now>>

FetchNext == FetchArticles

FetchSpec == Init /\ [][FetchNext]_vars

\* one timer invocation of the daily run
DailyMain ==
    /\ Len(wordpress_posts) < MaxPosts
    /\ \E env \in DailyEnvs :
          LET r == daily_main(Config, env, published_articles, linkedin_queue,
                              wordpress_posts, now)
          IN  /\ published_articles' = r.ledger
              /\ linkedin_queue' = r.queue
              /\ wordpress_posts' = r.posts
              /\ last' = [op |-> "daily_main",
                          args |-> [env |-> env, ledger |-> published_articles],
                          fail |-> env.fail.step,
                          ret |-> [articles |-> r.articles,
                                   new_articles |-> r.new_articles,
                                   attempted |-> r.attempted,
                                   processed_count |-> r.processed_count],
                          raised |-> r.raised]
    /\ UNCHANGED <<runs, newsletter_subscribers, now>>

DailyInit ==
    /\ published_articles \in DailyLedgers
    /\ newsletter_subscribers = <<>>
    /\ linkedin_queue = <<>>
    /\ wordpress_posts = <<>>
    /\ runs = [r \in RunIds |-> IdleRun]
    /\ now = 0
    /\ last = NoCall

DailyNext == Tick \/ DailyMain

DailySpec == DailyInit /\ [][DailyNext]_vars

\* the timer triggers run r; overlapping runs meet the same feed content
StartRun(r) ==
    /\ runs[r].pc = "idle"
    /\ \E env \in DailyEnvs :
          /\ \A o \in RunIds : runs[o].pc # "idle" => runs[o].feeds = env.feeds
          /\ runs' = [runs EXCEPT ![r] = [IdleRun EXCEPT !.pc = "fetch",
                                                         !.feeds = env.feeds]]
    /\ last' = [NoCall EXCEPT !.op = "start_run"]
    /\ UNCHANGED <<published_articles, newsletter_subscribers, linkedin_queue,
                   wordpress_posts, now>>

\* run r takes its next step
RunStep(r) ==
    /\ runs[r].pc \notin {"idle", "done", "raised"}
    /\ LET x == daily_step(Config, runs[r], published_articles, linkedin_queue,
                           wordpress_posts, now)
       IN  /\ runs' = [runs EXCEPT ![r] = x.run]
           /\ published_articles' = x.ledger
           /\ linkedin_queue' = x.queue
           /\ wordpress_posts' = x.posts
    /\ last' = [NoCall EXCEPT !.op = "run_step"]
    /\ UNCHANGED <<newsletter_subscribers, now>>

OverlapNext == \E r \in RunIds : StartRun(r) \/ RunStep(r)

OverlapSpec == DailyInit /\ [][OverlapNext]_vars

\* one call of suggest_category on some answer of the model
SuggestCategory ==
    /\ last.op = "none"
    /\ \E title \in TitleInputs, content_excerpt \in ExcerptInputs,
          fails \in BOOLEAN, content \in CategoryAnswers :
          last' = [op |-> "suggest_category",
                   args |-> [title |-> title, content_excerpt |-> content_excerpt,
                             response |-> Completion(fails, content)],
                   fail |-> IF fails THEN "call" ELSE "none",
                   ret |-> suggest_category(Config, title, content_excerpt,
                                            Completion(fails, content)),
                   raised |-> FALSE]
    /\ UNCHANGED <<published_articles, newsletter_subscribers, linkedin_queue,
                   wordpress_posts, runs, now>>

\* one call of rank_articles_for_newsletter on some answer of the model
RankArticles ==
    /\ last.op = "none"
    /\ \E articles \in RankInputs, top_n \in TopNInputs,
          fails \in BOOLEAN, content \in RankAnswers :
          last' = [op |-> "rank_articles_for_newsletter",
                   args |-> [articles |-> articles, top_n |-> top_n,
                             response |-> Completion(fails, content)],
                   fail |-> IF fails THEN "call" ELSE "none",
                   ret |-> rank_articles_for_newsletter(articles, top_n,
                                                        Completion(fails, content)),
                   raised |-> FALSE]
    /\ UNCHANGED <<published_articles, newsletter_subscribers, linkedin_queue,
                   wordpress_posts, runs, now>>

GeneratorNext == SuggestCategory \/ RankArticles

GeneratorSpec == Init /\ [][GeneratorNext]_vars

AddToQueue ==
    /\ Len(linkedin_queue) < MaxQueue
    /\ \E article_id \in {1, 2}, post_content \in {"p1", None}, f \in FailurePoints :
          LET r == add_to_queue(linkedin_queue, published_articles, article_id,
                                post_content, now, f)
          IN  /\ linkedin_queue' = r.db
              /\ last' = [op |-> "add_to_queue",
                          args |-> [article_id |-> article_id,
                                    post_content |-> post_content],
                          fail |-> f, ret |-> r.ret, raised |-> r.raised]
    /\ UNCHANGED <<published_articles, newsletter_subscribers, wordpress_posts,
                   runs, now>>

MarkAsPosted ==
    \E queue_id \in 1..MaxQueue, f \in FailurePoints :
        LET r == mark_as_posted(linkedin_queue, queue_id, now, f)
        IN  /\ linkedin_queue' = r.db
            /\ last' = [op |-> "mark_as_posted", args |-> [queue_id |-> queue_id],
                        fail |-> f, ret |-> r.ret, raised |-> r.raised]
            /\ UNCHANGED <<published_articles, newsletter_subscribers,
                           wordpress_posts, runs, now>>

GetPendingPosts ==
    \E limit \in {1, 10} :
        \E res \in get_pending_posts(linkedin_queue, published_articles, limit) :
            /\ last' = [op |-> "get_pending_posts", args |-> [limit |-> limit],
                        fail |-> "none", ret |-> res, raised |-> FALSE]
            /\ UNCHANGED <<published_articles, newsletter_subscribers,
                           linkedin_queue, wordpress_posts, runs, now>>

QueueNext == Tick \/ AddToQueue \/ MarkAsPosted \/ GetPendingPosts

\* the queue starts empty, next to a ledger that is empty or holds one row
QueueSpec == DailyInit /\ [][QueueNext]_vars

\* one call of send_newsletter on some list of subscribers
SendNewsletter ==
    /\ last.op = "none"
    /\ \E n \in 0..MaxRecipients :
          \E subscribers \in [1..n -> SubscriberDicts], outcomes \in [1..n -> SendOutcomes] :
             LET r == send_newsletter(Config, subscribers, "subject", "intro",
                                      <<>>, "task", outcomes)
             IN  last' = [op |-> "send_newsletter",
                          args |-> [subscribers |-> subscribers, outcomes |-> outcomes],
                          fail |-> "none",
                          ret |-> [sent_count |-> r.ret, attempts |-> r.attempts,
                                   failed |-> r.failed],
                          raised |-> r.raised]
    /\ UNCHANGED <<published_articles, newsletter_subscribers, linkedin_queue,
                   wordpress_posts, runs, now>>

EmailNext == SendNewsletter

EmailSpec == Init /\ [][EmailNext]_vars

\* one timer invocation of the weekly run
WeeklyMain ==
    /\ \E env \in WeeklyEnvs :
          \E r \in weekly_main(Config, env, published_articles,
                               newsletter_subscribers, now) :
             last' = [op |-> "weekly_main", args |-> [env |-> env],
                      fail |-> IF env.init_fails THEN "init" ELSE "none",
                      ret |-> [send_called |-> r.send_called,
                               attempts |-> r.attempts,
                               sent_count |-> r.sent_count,
                               top_articles |-> r.top_articles,
                               intro |-> r.intro,
                               practice_task |-> r.practice_task,
                               subscribers |-> r.subscribers],
                      raised |-> r.raised]
    /\ UNCHANGED <<published_articles, newsletter_subscribers, linkedin_queue,
                   wordpress_posts, runs, now>>

WeeklyInit ==
    /\ published_articles \in WeeklyLedgers
    /\ newsletter_subscribers \in WeeklyRegistries
    /\ linkedin_queue = <<>>
    /\ wordpress_posts = <<>>
    /\ runs = [r \in RunIds |-> IdleRun]
    /\ now = 0
    /\ last = NoCall

WeeklyNext == WeeklyMain

WeeklySpec == WeeklyInit /\ [][WeeklyNext]_vars

Next == LedgerNext \/ RegistryNext \/ FetchNext \/ DailyNext \/ OverlapNext
        \/ GeneratorNext \/ QueueNext \/ EmailNext \/ WeeklyNext

Spec == Init /\ [][Next]_vars

\* ------------------------------------------------------------------------
\* Publication ledger: properties
\* ------------------------------------------------------------------------

\* the index of the ledger row that holds source_url u
RowOf(rows, u) == CHOOSE i \in 1..Len(rows) : Fold(rows[i].source_url) = Fold(u)

\* C1: after any sequence of add_article calls the ledger holds at most one
\* row per distinct source_url
C1_OneRowPerSourceUrl ==
    \A i, j \in 1..Len(published_articles) :
        i # j => published_articles[i].source_url # published_articles[j].source_url

\* a second add_article for a recorded url has succeeded and the ledger holds
\* two rows
C1_Witness ==
    /\ last.op = "add_article" /\ ~last.raised
    /\ Len(published_articles) = 2
    /\ \E i \in 1..Len(published_articles) :
          /\ published_articles[i].source_url = last.args.source_url
          /\ published_articles[i].title # last.args.title

\* C2: an add_article call for a source_url that is already recorded leaves
\* exactly one row for it, with the call's wordpress_post_id and
\* wordpress_url and with the title, source_name, tags and published_at the
\* row had before
C2_UpsertOverwritesOnlyPostFields ==
    [][ (/\ last'.op = "add_article" /\ ~last'.raised
         /\ is_article_published(published_articles, last'.args.source_url))
        => LET i == RowOf(published_articles, last'.args.source_url)
               old == published_articles[i]
               new == published_articles'[i]
           IN  /\ Len(published_articles') = Len(published_articles)
               /\ Cardinality(Matching(published_articles',
                      LAMBDA r : r.source_url = old.source_url)) = 1
               /\ new.wordpress_post_id = last'.args.wordpress_post_id
               /\ new.wordpress_url = last'.args.wordpress_url
               /\ new.title = old.title
               /\ new.source_name = old.source_name
               /\ new.tags = old.tags
               /\ new.published_at = old.published_at
               /\ new.source_url = old.source_url
      ]_vars

\* the second call for a url has succeeded: the row has the call's post id
\* and url but another title, source_name and tags than the call passed,
\* and was published before the call
C2_Witness ==
    /\ last.op = "add_article" /\ ~last.raised
    /\ \E i \in 1..Len(published_articles) :
          LET r == published_articles[i]
          IN  /\ r.source_url = last.args.source_url
              /\ r.wordpress_post_id = last.args.wordpress_post_id
              /\ r.wordpress_url = last.args.wordpress_url
              /\ r.title # last.args.title
              /\ r.source_name # last.args.source_name
              /\ r.tags # tags_str(last.args.tags)
              /\ r.published_at < now

\* C3: once add_article for a url has succeeded, is_article_published(url)
\* is true, and no later operation makes it false again
C3_RecordedStaysPublished ==
    [][ /\ (last'.op = "add_article" /\ ~last'.raised)
            => is_article_published(published_articles', last'.args.source_url)
        /\ \A u \in SourceUrls :
              is_article_published(published_articles, u)
                  => is_article_published(published_articles', u)
        /\ last'.op = "is_article_published"
            => (last'.ret <=> \E i \in 1..Len(published_articles) :
                    Fold(published_articles[i].source_url) = Fold(last'.args.source_url))
      ]_vars

\* is_article_published answers true for a url recorded at an earlier time,
\* after a later add_article for the same url
C3_Witness ==
    /\ last.op = "is_article_published" /\ last.ret
    /\ \E i \in 1..Len(published_articles) :
          /\ Fold(published_articles[i].source_url) = Fold(last.args.source_url)
          /\ published_articles[i].published_at < now
    /\ Len(published_articles) = 2

\* C4: an add_article call in which a failure is raised before the
\* transaction scope ends raises to its caller and leaves the ledger as it
\* was before the call
C4_FailedWriteRollsBack ==
    [][ /\ (last'.op = "add_article" /\ (last'.fail # "none" \/ last'.args.title = None))
            => last'.raised
        /\ (last'.op = "add_article" /\ last'.raised)
            => published_articles' = published_articles
      ]_vars

\* a failure was raised after the INSERT of a new url had executed, and the
\* url is not in the ledger
C4_Witness ==
    /\ last.op = "add_article" /\ last.raised /\ last.fail = "body"
    /\ last.args.title # None
    /\ ~is_article_published(published_articles, last.args.source_url)
    /\ Len(published_articles) = 1

\* the rows of the ledger published within the trailing `days` days at time t
InWindow(rows, t, days) ==
    {i \in 1..Len(rows) : /\ t - rows[i].published_at < days * DayTicks
                          /\ rows[i].published_at <= t}

\* C5: get_recent_articles(days) returns exactly the ledger rows published
\* within the trailing `days` days, each once, newest first, and returns the
\* empty sequence without failing when there is none
C5_RecentIsWindowNewestFirst ==
    last.op = "get_recent_articles" =>
        LET res == last.ret
            w == InWindow(published_articles, now, last.args.days)
        IN  /\ ~last.raised
            /\ Len(res) = Cardinality(w)
            /\ \A i \in w : \E k \in 1..Len(res) : res[k] = published_articles[i]
            /\ \A k \in 1..Len(res) : \E i \in w : res[k] = published_articles[i]
            /\ \A k, l \in 1..Len(res) :
                  k < l => res[k].published_at >= res[l].published_at
            /\ (w = {} => res = <<>>)

\* get_recent_articles has returned two rows published at different times,
\* the one inserted last first
C5_Witness ==
    /\ last.op = "get_recent_articles"
    /\ Len(last.ret) = 2
    /\ last.ret[1].published_at > last.ret[2].published_at
    /\ last.ret[1].id > last.ret[2].id

\* ------------------------------------------------------------------------
\* Subscriber registry: properties
\* ------------------------------------------------------------------------

\* the rows whose confirmation token is k, and the rows whose unsubscribe token is k
ByConfirmationToken(rows, k) == Matching(rows, LAMBDA r : r.confirmation_token = k)
ByUnsubscribeToken(rows, k) == Matching(rows, LAMBDA r : r.unsubscribe_token = k)

\* C6: an add_subscriber call for an email that is already registered leaves
\* exactly one row for the email, with the call's name, and with the
\* confirmation token, unsubscribe token, confirmed and active flags the row
\* had before the call
C6_ResubscribeUpdatesNameOnly ==
    [][ (/\ last'.op = "add_subscriber" /\ ~last'.raised
         /\ \E i \in 1..Len(newsletter_subscribers) :
               newsletter_subscribers[i].email = last'.args.email)
        => LET i == CHOOSE j \in 1..Len(newsletter_subscribers) :
                        newsletter_subscribers[j].email = last'.args.email
               old == newsletter_subscribers[i]
               new == newsletter_subscribers'[i]
           IN  /\ Len(newsletter_subscribers') = Len(newsletter_subscribers)
               /\ Cardinality(Matching(newsletter_subscribers',
                      LAMBDA r : r.email = last'.args.email)) = 1
               /\ new.email = old.email
               /\ new.name = last'.args.name
               /\ new.confirmation_token = old.confirmation_token
               /\ new.unsubscribe_token = old.unsubscribe_token
               /\ new.confirmed = old.confirmed
               /\ new.active = old.active
      ]_vars

\* a second add_subscriber for an email has succeeded with explicit tokens:
\* the row has the call's name, other tokens than the call passed, and the
\* flags of a confirmed, unsubscribed subscriber
C6_Witness ==
    /\ last.op = "add_subscriber" /\ ~last.raised
    /\ last.args.confirmation_token # None /\ last.args.unsubscribe_token # None
    /\ \E i \in 1..Len(newsletter_subscribers) :
          LET r == newsletter_subscribers[i]
          IN  /\ r.email = last.args.email
              /\ r.name = last.args.name
              /\ r.confirmation_token # last.args.confirmation_token
              /\ r.unsubscribe_token # last.args.unsubscribe_token
              /\ r.confirmed /\ ~r.active

\* C7: confirm_subscriber called with the confirmation token of a subscriber
\* returns true and leaves the subscriber confirmed, on the first call and
\* on every repeated call
C7_ConfirmAlwaysReturnsTrue ==
    (/\ last.op = "confirm_subscriber" /\ ~last.raised
     /\ ByConfirmationToken(newsletter_subscribers, last.args.token) # {})
    => /\ last.ret = TRUE
       /\ \A i \in ByConfirmationToken(newsletter_subscribers, last.args.token) :
             newsletter_subscribers[i].confirmed

\* C8: confirm_subscriber and unsubscribe called with a token that matches
\* no subscriber return false without raising and change no row; a call
\* that raises changes no row either
C8_UnknownTokenChangesNothing ==
    [][ /\ (/\ last'.op = "confirm_subscriber" /\ last'.fail = "none"
             /\ ByConfirmationToken(newsletter_subscribers, last'.args.token) = {})
            => /\ ~last'.raised /\ last'.ret = FALSE
               /\ newsletter_subscribers' = newsletter_subscribers
        /\ (/\ last'.op = "unsubscribe" /\ last'.fail = "none"
             /\ ByUnsubscribeToken(newsletter_subscribers, last'.args.token) = {})
            => /\ ~last'.raised /\ last'.ret = FALSE
               /\ newsletter_subscribers' = newsletter_subscribers
        /\ (last'.op \in {"confirm_subscriber", "unsubscribe"} /\ last'.raised)
            => newsletter_subscribers' = newsletter_subscribers
      ]_vars

\* confirm_subscriber has returned false for a token that is the
\* unsubscribe token of an unconfirmed subscriber and nobody's confirmation
\* token
C8_Witness ==
    /\ last.op = "confirm_subscriber" /\ ~last.raised /\ last.ret = FALSE
    /\ ByConfirmationToken(newsletter_subscribers, last.args.token) = {}
    /\ \E i \in ByUnsubscribeToken(newsletter_subscribers, last.args.token) :
          ~newsletter_subscribers[i].confirmed

\* C9: get_active_subscribers returns exactly the subscribers with
\* confirmed = true and active = true, each once, with their own columns
C9_ActiveIsConfirmedAndActive ==
    last.op = "get_active_subscribers" =>
        LET res == last.ret
            rows == newsletter_subscribers
        IN  /\ \A i \in 1..Len(rows) :
                  (rows[i].confirmed /\ rows[i].active)
                      <=> \E k \in 1..Len(res) : res[k].id = rows[i].id
            /\ \A k \in 1..Len(res) : \E i \in 1..Len(rows) :
                  /\ res[k].id = rows[i].id /\ res[k].email = rows[i].email
                  /\ res[k].name = rows[i].name
                  /\ res[k].subscribed_at = rows[i].subscribed_at
            /\ \A k, l \in 1..Len(res) : k # l => res[k].id # res[l].id

\* get_active_subscribers has returned nobody although there are an
\* unconfirmed active subscriber and a confirmed unsubscribed one
C9_Witness ==
    /\ last.op = "get_active_subscribers"
    /\ last.ret = <<>>
    /\ \E i, j \in 1..Len(newsletter_subscribers) :
          /\ ~newsletter_subscribers[i].confirmed /\ newsletter_subscribers[i].active
          /\ newsletter_subscribers[j].confirmed /\ ~newsletter_subscribers[j].active

\* C10: a successful unsubscribe with a subscriber's token leaves the
\* subscriber out of get_active_subscribers; no operation removes a row,
\* sets active back to true or sets confirmed back to false, so the
\* subscriber stays out
C10_FlagsAreOneWay ==
    [][ /\ (last'.op = "unsubscribe" /\ ~last'.raised)
            => \A i \in ByUnsubscribeToken(newsletter_subscribers, last'.args.token) :
                 /\ ~newsletter_subscribers'[i].active
                 /\ \A k \in 1..Len(get_active_subscribers(newsletter_subscribers')) :
                       get_active_subscribers(newsletter_subscribers')[k].id
                           # newsletter_subscribers[i].id
        /\ Len(newsletter_subscribers') >= Len(newsletter_subscribers)
        /\ \A i \in 1..Len(newsletter_subscribers) :
              /\ newsletter_subscribers'[i].id = newsletter_subscribers[i].id
              /\ newsletter_subscribers'[i].email = newsletter_subscribers[i].email
              /\ newsletter_subscribers[i].confirmed => newsletter_subscribers'[i].confirmed
              /\ ~newsletter_subscribers[i].active => ~newsletter_subscribers'[i].active
      ]_vars

\* confirm_subscriber has been called again with the token of a confirmed
\* subscriber who has unsubscribed: the subscriber is still inactive and
\* absent from get_active_subscribers
C10_Witness ==
    /\ last.op = "confirm_subscriber" /\ ~last.raised /\ last.ret = FALSE
    /\ \E i \in ByConfirmationToken(newsletter_subscribers, last.args.token) :
          /\ newsletter_subscribers[i].confirmed
          /\ ~newsletter_subscribers[i].active
          /\ \A k \in 1..Len(get_active_subscribers(newsletter_subscribers)) :
                get_active_subscribers(newsletter_subscribers)[k].id
                    # newsletter_subscribers[i].id

\* C11: no two subscriber rows have the same confirmation token or the same
\* unsubscribe token, also after add_subscriber calls with explicit tokens
C11_TokensNeverShared ==
    \A i, j \in 1..Len(newsletter_subscribers) :
        i # j => /\ newsletter_subscribers[i].confirmation_token
                        # newsletter_subscribers[j].confirmation_token
                 /\ newsletter_subscribers[i].unsubscribe_token
                        # newsletter_subscribers[j].unsubscribe_token

\* ------------------------------------------------------------------------
\* Feed fetcher: properties
\* ------------------------------------------------------------------------

\* the articles of the entries of the feeds that did not fail which are not
\* older than the cutoff of the call recorded in c
Collected(c) ==
    { Article(c.args.feeds[f], c.args.feeds[f].entries[k], c.args.t) :
        <<f, k>> \in { x \in (1..Len(c.args.feeds)) \X (1..MaxEntries + 1) :
            /\ ~c.args.feeds[x[1]].fails
            /\ x[2] <= Len(c.args.feeds[x[1]].entries)
            /\ parse_date(c.args.feeds[x[1]].entries[x[2]], c.args.t)
                  >= c.args.t - c.args.max_age_hours } }

\* the urls of a set of articles
UrlsOf(as) == {a.url : a \in as}

\* C12: the output of fetch_articles holds no url twice; every article of
\* the output is a collected one and no collected copy of its url is newer;
\* every collected url is in the output unless max_articles cuts it off
C12_EachUrlOnceNewestCopy ==
    last.op = "fetch_articles" =>
        LET out == last.ret
        IN  /\ \A k, l \in 1..Len(out) : k # l => out[k].url # out[l].url
            /\ \A k \in 1..Len(out) :
                  /\ out[k] \in Collected(last)
                  /\ \A c \in Collected(last) :
                        c.url = out[k].url => c.published_date <= out[k].published_date
            /\ Cardinality(UrlsOf(Collected(last))) <= last.args.max_articles
                  => \A u \in UrlsOf(Collected(last)) :
                        \E k \in 1..Len(out) : out[k].url = u

\* two feeds have delivered copies of one url with different timestamps,
\* the older one first, and the output holds the url
C12_Witness ==
    /\ last.op = "fetch_articles"
    /\ \E a, b \in Collected(last) :
          /\ a.url = b.url /\ a.published_date < b.published_date
          /\ a.source = "F1" /\ b.source = "F2"
          /\ \E k \in 1..Len(last.ret) : last.ret[k] = b

\* C13: no article of the output has a publish timestamp before call time
\* minus max_age_hours; an entry without a date field is stamped with the
\* call time and is in the output unless max_articles cuts it off
C13_NoArticleOlderThanCutoff ==
    last.op = "fetch_articles" =>
        LET out == last.ret
            feeds == last.args.feeds
        IN  /\ \A k \in 1..Len(out) :
                  out[k].published_date >= last.args.t - last.args.max_age_hours
            /\ \A f \in 1..Len(feeds) : \A k \in 1..Len(feeds[f].entries) :
                  LET e == feeds[f].entries[k]
                  IN  /\ (e.has_date /\ e.published < last.args.t - last.args.max_age_hours)
                          => \A l \in 1..Len(out) :
                                ~(out[l].title = e.title /\ out[l].url = e.link
                                  /\ out[l].published_date = e.published)
                      /\ (~e.has_date /\ ~feeds[f].fails)
                          => \/ \E l \in 1..Len(out) :
                                  /\ out[l].url = e.link
                                  /\ out[l].published_date = last.args.t
                             \/ Len(out) = last.args.max_articles

\* a feed has delivered an entry older than the cutoff and an entry without
\* a date, and the output holds the undated one only
C13_Witness ==
    /\ last.op = "fetch_articles"
    /\ \E f \in 1..Len(last.args.feeds) :
          LET es == last.args.feeds[f].entries
          IN  /\ ~last.args.feeds[f].fails
              /\ \E k, l \in 1..Len(es) :
                    /\ es[k].has_date
                    /\ es[k].published < last.args.t - last.args.max_age_hours
                    /\ ~es[l].has_date
    /\ Len(last.ret) = 1
    /\ last.ret[1].title = "C"

\* C14: the output of fetch_articles is ordered by publish timestamp
\* descending and has min(max_articles, number of collected urls) elements,
\* none of them older than a collected url that was left out
C14_SortedDedupedThenTruncated ==
    last.op = "fetch_articles" =>
        LET out == last.ret
            urls == UrlsOf(Collected(last))
        IN  /\ \A k, l \in 1..Len(out) :
                  k < l => out[k].published_date >= out[l].published_date
            /\ Len(out) <= last.args.max_articles
            /\ Len(out) = IF Cardinality(urls) < last.args.max_articles
                           THEN Cardinality(urls) ELSE last.args.max_articles
            /\ \A c \in Collected(last) :
                  (\A k \in 1..Len(out) : out[k].url # c.url)
                      => \A k \in 1..Len(out) : out[k].published_date >= c.published_date

\* three urls were collected, one of them twice, and the output holds the
\* two newest urls
C14_Witness ==
    /\ last.op = "fetch_articles"
    /\ Cardinality(UrlsOf(Collected(last))) = 3
    /\ Cardinality(Collected(last)) = 4
    /\ last.args.max_articles = 2
    /\ Len(last.ret) = 2
    /\ last.ret[1].published_date > last.ret[2].published_date

\* the feeds of a call with the failing feeds replaced by empty ones
WithoutFailingFeeds(feeds) ==
    [f \in 1..Len(feeds) |->
        IF feeds[f].fails THEN [feeds[f] EXCEPT !.entries = <<>>, !.fails = FALSE]
        ELSE feeds[f]]

\* C15: a feed that fails does not make fetch_articles fail; the result is
\* the result for the same feeds with the failing feed empty
C15_FailingFeedIsSkipped ==
    last.op = "fetch_articles" =>
        /\ ~last.raised
        /\ last.ret = fetch_articles(WithoutFailingFeeds(last.args.feeds), last.args.t,
                           last.args.max_age_hours, last.args.max_articles).ret
        /\ \A k \in 1..Len(last.ret) : \E f \in 1..Len(last.args.feeds) :
              ~last.args.feeds[f].fails /\ last.args.feeds[f].title = last.ret[k].source

\* the first feed has failed with entries in its document and the output
\* holds the articles of the second feed
C15_Witness ==
    /\ last.op = "fetch_articles" /\ ~last.raised
    /\ last.args.feeds[1].fails /\ Len(last.args.feeds[1].entries) = 2
    /\ ~last.args.feeds[2].fails
    /\ Len(last.ret) = 2
    /\ \A k \in 1..Len(last.ret) : last.ret[k].source = "F2"

\* ------------------------------------------------------------------------
\* Daily run: properties
\* ------------------------------------------------------------------------

\* the last call was a daily run whose services were all constructed
DailyRan == last.op = "daily_main" /\ ~last.args.env.init_fails

\* the urls of a sequence of articles, in order
UrlSeq(as) == [k \in 1..Len(as) |-> as[k].url]

\* the candidates of the last daily run: the first N survivors of the
\* filter, N the configured cap (all of them where no cap is configured)
Candidates ==
    Slice(last.ret.new_articles,
          IF hasattr(Config, "MAX_ARTICLES_PER_DAY")
          THEN Config.MAX_ARTICLES_PER_DAY ELSE Len(last.ret.new_articles))

\* C16: a daily run in which a failure occurs before step 1 completes - the
\* construction of a service raises, or no feed at all can be reached - ends
\* by raising to its caller
C16_FailureBeforeFetchCompletesIsFatal ==
    (/\ last.op = "daily_main"
     /\ \/ last.args.env.init_fails
        \/ \A i \in 1..Len(last.args.env.feeds) : last.args.env.feeds[i].fails)
    => last.raised

\* C17: a daily run in which a per-article step fails for one candidate ends
\* normally, and every later candidate of the run has been attempted
C17_PerArticleFailureIsSkipped ==
    (/\ DailyRan
     /\ last.args.env.fail.index \in 1..Len(Candidates))
    => /\ ~last.raised
       /\ \A k \in 1..Len(Candidates) :
             k > last.args.env.fail.index
             => \E j \in 1..Len(last.ret.attempted) :
                   last.ret.attempted[j] = Candidates[k].url

\* C18: after a daily run that started from the empty ledger, met no failure
\* and fetched one article with url u, is_article_published(u) is true, and a
\* second run over the same feed content finds no new article, attempts
\* none and creates no post
C18_PublishedArticleIsNotProcessedAgain ==
    (/\ DailyRan
     /\ last.args.ledger = <<>>
     /\ last.args.env.fail.step = "none"
     /\ \A i \in 1..Len(last.args.env.feeds) : ~last.args.env.feeds[i].fails
     /\ Len(last.ret.articles) = 1)
    => /\ ~last.raised
       /\ is_article_published(published_articles, last.ret.articles[1].url)
       /\ LET second == daily_main(Config, last.args.env, published_articles,
                                   linkedin_queue, wordpress_posts, now)
          IN  /\ second.new_articles = <<>>
              /\ second.attempted = <<>>
              /\ second.posts = wordpress_posts

\* C19: in a daily run whose fetch returns at least one article a daily cap
\* N is configured, and the urls attempted are those of the first N
\* articles, in fetch order, among the fetched articles whose url is not in
\* the ledger
C19_AttemptsFirstNSurvivors ==
    (DailyRan /\ last.ret.articles # <<>>)
    => /\ hasattr(Config, "MAX_ARTICLES_PER_DAY")
       /\ last.ret.new_articles
            = SelectSeq(last.ret.articles,
                        LAMBDA a : ~is_article_published(last.args.ledger, a.url))
       /\ last.ret.attempted
            = UrlSeq(Slice(last.ret.new_articles, Config.MAX_ARTICLES_PER_DAY))

\* C26: for each article a daily run without a failing step handles, the
\* run publishes, then records, then queues: WordPress holds a post made
\* from the article, the ledger row of the article's url carries the id and
\* the link of that post, and a queue entry references the id of that row
C26_PublishThenRecordThenQueue ==
    (/\ DailyRan
     /\ last.args.env.fail.step = "none"
     /\ last.ret.new_articles # <<>>)
    => /\ ~last.raised
       /\ \A k \in 1..Len(Candidates) :
             \E p \in 1..Len(wordpress_posts), i \in 1..Len(published_articles),
                q \in 1..Len(linkedin_queue) :
                /\ wordpress_posts[p].content = Candidates[k].url
                /\ Fold(published_articles[i].source_url) = Fold(Candidates[k].url)
                /\ published_articles[i].wordpress_post_id = wordpress_posts[p].id
                /\ published_articles[i].wordpress_url = wordpress_posts[p].link
                /\ linkedin_queue[q].article_id = published_articles[i].id
                /\ linkedin_queue[q].post_content = Candidates[k].url

\* ------------------------------------------------------------------------
\* Overlapping daily runs: properties
\* ------------------------------------------------------------------------

\* both runs have ended
BothEnded == \A r \in RunIds : runs[r].pc \in {"done", "raised"}

\* both runs found the same url first among the articles not yet recorded
BothSawNew ==
    /\ \A r \in RunIds : runs[r].new_articles # <<>>
    /\ runs[1].new_articles[1].url = runs[2].new_articles[1].url

\* the posts at WordPress made from source url u
PostsOf(u) == {i \in 1..Len(wordpress_posts) : wordpress_posts[i].content = u}

\* the ledger rows that hold source url u
RowsOf(u) == {i \in 1..Len(published_articles) :
                 Fold(published_articles[i].source_url) = Fold(u)}

\* C27: in the interleaving of two overlapping daily runs in which both see
\* the same url as not yet recorded, both submit it to the publisher: when
\* both have ended the url has been published twice and the ledger holds one
\* row for it
C27_BothRunsPublishSameUrl ==
    (BothEnded /\ BothSawNew)
    => LET u == runs[1].new_articles[1].url
       IN  /\ \A r \in RunIds : \E k \in 1..Len(runs[r].published) :
                                    runs[r].published[k] = u
           /\ Cardinality(PostsOf(u)) = 2
           /\ Cardinality(RowsOf(u)) = 1

\* ------------------------------------------------------------------------
\* Content generator: properties
\* ------------------------------------------------------------------------

\* C25: suggest_category returns a member of Config.BLOG_CATEGORIES for
\* every answer of the model, and the default category, itself a member,
\* when the call fails
C25_CategoryIsAlwaysInSet ==
    last.op = "suggest_category"
    => /\ ~last.raised
       /\ last.ret \in Range(Config.BLOG_CATEGORIES)
       /\ last.args.response.fails => last.ret = ".NET Development"

\* the model answered with a text that is no category and the default came back
C25_Witness ==
    /\ last.op = "suggest_category"
    /\ ~last.args.response.fails
    /\ last.args.response.content = "Security"
    /\ last.ret = ".NET Development"

\* the ranking answer could be parsed: the call returned, with content, and
\* every field is an integer
RankParsed ==
    /\ ~last.args.response.fails
    /\ last.args.response.content # NoFields
    /\ \A k \in 1..Len(last.args.response.content) :
          Strip(last.args.response.content[k]) \in DOMAIN IntOf

\* C28: rank_articles_for_newsletter returns at most top_n articles, each an
\* element of the input and none twice, for every answer of the model; when
\* the call or the parsing fails it returns the first top_n input articles
C28_RankReturnsDistinctInputArticles ==
    last.op = "rank_articles_for_newsletter"
    => /\ Len(last.ret) <= last.args.top_n
       /\ \A k \in 1..Len(last.ret) : last.ret[k] \in Range(last.args.articles)
       /\ \A i, j \in 1..Len(last.ret) : i # j => last.ret[i] # last.ret[j]
       /\ ~RankParsed => last.ret = Slice(last.args.articles, last.args.top_n)

\* ------------------------------------------------------------------------
\* Outbound-post queue: properties
\* ------------------------------------------------------------------------

\* C30: an entry with posted = true keeps posted = true under every later
\* add_to_queue, mark_as_posted and get_pending_posts call, and
\* get_pending_posts never returns an entry with posted = true
C30_PostedIsTerminal ==
    [][ /\ \A i \in 1..Len(linkedin_queue) :
              linkedin_queue[i].posted
              => /\ i <= Len(linkedin_queue')
                 /\ linkedin_queue'[i].id = linkedin_queue[i].id
                 /\ linkedin_queue'[i].posted
        /\ last'.op = "mark_as_posted" /\ ~last'.raised
           => \A i \in 1..Len(linkedin_queue') :
                 linkedin_queue'[i].id = last'.args.queue_id
                 => linkedin_queue'[i].posted
        /\ last'.op = "get_pending_posts"
           => \A k \in 1..Len(last'.ret) :
                 /\ ~last'.ret[k].posted
                 /\ \E i \in 1..Len(linkedin_queue) :
                       /\ linkedin_queue[i].id = last'.ret[k].id
                       /\ ~linkedin_queue[i].posted ]_vars

\* one entry is posted, a second mark_as_posted of it has been committed, and
\* another entry is still pending
C30_Witness ==
    /\ last.op = "mark_as_posted" /\ ~last.raised
    /\ \E i, j \in 1..Len(linkedin_queue) :
          /\ linkedin_queue[i].id = last.args.queue_id
          /\ linkedin_queue[i].posted
          /\ linkedin_queue[i].posted_at > linkedin_queue[i].created_at
          /\ ~linkedin_queue[j].posted

\* ------------------------------------------------------------------------
\* Email service: properties
\* ------------------------------------------------------------------------

\* C23: send_newsletter hands one message per subscriber to the provider, in
\* the order of the list, whatever the outcome for earlier recipients; the
\* count returned is the number of accepted messages and at most the number
\* of recipients
C23_EveryRecipientAttemptedOnce ==
    last.op = "send_newsletter"
    => LET subscribers == last.args.subscribers
           outcomes == last.args.outcomes
       IN  /\ ~last.raised
           /\ Len(last.ret.attempts) = Len(subscribers)
           /\ \A k \in 1..Len(subscribers) :
                 last.ret.attempts[k].to_email = subscribers[k].email
           /\ last.ret.sent_count
                = Cardinality({k \in 1..Len(subscribers) : outcomes[k] = "sent"})
           /\ last.ret.sent_count <= Len(subscribers)

\* a send raised for the first of three recipients, the second was refused
\* and the third was sent
C23_Witness ==
    /\ last.op = "send_newsletter"
    /\ last.args.outcomes = <<"raises", "refused", "sent">>
    /\ last.ret.sent_count = 1
    /\ Len(last.ret.attempts) = 3

\* ------------------------------------------------------------------------
\* Weekly run: properties
\* ------------------------------------------------------------------------

\* the last call was a weekly run whose services were all constructed
WeeklyRan == last.op = "weekly_main" /\ ~last.args.env.init_fails

\* get_recent_articles(7) returns no row
NoRecentArticles == get_recent_articles(published_articles, now, 7) = {<<>>}

\* C22: a weekly run calls send_newsletter only when get_recent_articles(7)
\* and get_active_subscribers() are both non-empty; when either is empty
\* the run ends normally and hands no message to the provider
C22_SendsOnlyWithArticlesAndSubscribers ==
    WeeklyRan
    => /\ last.ret.send_called
          => /\ ~NoRecentArticles
             /\ get_active_subscribers(newsletter_subscribers) # <<>>
       /\ (NoRecentArticles \/ get_active_subscribers(newsletter_subscribers) = <<>>)
          => /\ ~last.raised
             /\ ~last.ret.send_called
             /\ last.ret.attempts = <<>>

\* the ledger holds recent articles, the registry holds rows but no active
\* confirmed one, and the run ended normally without a send
C22_Witness ==
    /\ WeeklyRan
    /\ ~NoRecentArticles
    /\ newsletter_subscribers # <<>>
    /\ get_active_subscribers(newsletter_subscribers) = <<>>
    /\ ~last.raised /\ ~last.ret.send_called

\* the completion call fails or gives a message without content
IsFailure(response) == response.fails \/ response.content = None

\* C24: in a weekly run that reaches the two generators, neither a failure
\* of the intro call nor one of the practice-task call makes the run raise;
\* the intro is its default exactly when the intro call failed and the
\* practice task is its default exactly when the practice-task call failed,
\* whatever happened to the other call
C24_GeneratorFallbacksAreIndependent ==
    (WeeklyRan /\ ~NoRecentArticles)
    => /\ ~last.raised
       /\ last.ret.intro = IF IsFailure(last.args.env.intro)
                           THEN DefaultIntro
                           ELSE Strip(last.args.env.intro.content)
       /\ last.ret.practice_task = IF IsFailure(last.args.env.practice)
                                   THEN DefaultPracticeTask
                                   ELSE Strip(last.args.env.practice.content)

\* the intro call failed, the practice-task call did not, and the newsletter
\* went out with the default intro and the generated task
C24_Witness ==
    /\ WeeklyRan
    /\ last.args.env.intro.fails /\ ~last.args.env.practice.fails
    /\ last.ret.send_called
    /\ last.ret.intro = DefaultIntro
    /\ last.ret.practice_task = "Hello"

\* C29: the unsubscribe link of every message a weekly run hands to the
\* provider carries the unsubscribe token of the recipient's registry row
C29_UnsubscribeLinkCarriesOwnToken ==
    (WeeklyRan /\ last.ret.send_called)
    => \A k \in 1..Len(last.ret.attempts) :
          \E i \in 1..Len(newsletter_subscribers) :
             /\ newsletter_subscribers[i].email = last.ret.attempts[k].to_email
             /\ last.ret.attempts[k].unsubscribe_url
                  = Config.WORDPRESS_URL \o "/unsubscribe?token="
                    \o newsletter_subscribers[i].unsubscribe_token

====
